---- MODULE Spec2Model ----
(***************************************************************************)
(* Model of src/context.ts of setup-buildx-action: the argument builders   *)
(* getCreateArgs / getAppendArgs / getInspectArgs, getVersion, and the     *)
(* BuildKit configuration merge addClusterLocalRegistryConfig with its     *)
(* file-based wrapper addClusterLocalRegistryConfigFile.                   *)
(*                                                                         *)
(* Strings that the code only compares or forwards are TLA+ strings.       *)
(* Strings the code takes apart are sequences: a file path is the sequence *)
(* of its components, inputs.version is a sequence of characters, a TOML   *)
(* text is a sequence of lines.                                            *)
(***************************************************************************)
EXTENDS Naturals, Integers, Sequences, FiniteSets, TLC

VARIABLES
    env,        \* process.env.BP_DOCKER_REGISTRY: [set, value]
    fs,         \* the file system: path -> [exists, text]
    lookup,     \* what the external tool reports as its version: [status, ver]
    rejects,    \* whether the toolkit's versionSatisfies promise rejects on a bad lookup
    call,       \* the last builder call: [op, inputs, node, uuid]
    result,     \* its outcome: [status, args, err]
    resolved,   \* what was handed to toolkit.buildkit.config.resolveFrom*: [kind, path, text]
    fsBefore,   \* the file system when the last builder call started
    runs,       \* outputs of successive applications of the registry merge
    inv,        \* the concurrent getCreateArgs invocations: id -> local state
    locks       \* the callers' serialization per directory: [enabled, held]

vars == <<env, fs, lookup, rejects, call, result, resolved, fsBefore, runs, inv, locks>>

(***************************************************************************)
(* TOML texts and documents (TOML.parse / TOML.stringify)                  *)
(***************************************************************************)

\* A line of a TOML text: a table header "[a.b]" or a key/value pair "k = lit".
Header(p) == [kind |-> "header", path |-> p, key |-> "", lit |-> ""]
KV(k, l) == [kind |-> "kv", path |-> <<>>, key |-> k, lit |-> l]

\* The literal of an empty inline table.
EmptyTableLit == "{ }"

\* Literals whose JavaScript value is falsy: false, 0, "".
FalsyLits == {"false", "0", "\"\""}

\* A node of a parsed document, in insertion order of the JavaScript object:
\* a table (lit unused) or a scalar leaf.
TableNode(p) == [path |-> p, table |-> TRUE, lit |-> ""]
LeafNode(p, l) == [path |-> p, table |-> FALSE, lit |-> l]

Has(doc, p) == \E i \in 1..Len(doc) : doc[i].path = p
NodeAt(doc, p) == doc[CHOOSE i \in 1..Len(doc) : doc[i].path = p]

IsPrefix(p, q) == Len(p) <= Len(q) /\ SubSeq(q, 1, Len(p)) = p
IsChild(p, q) == Len(q) = Len(p) + 1 /\ IsPrefix(p, q)

Children(doc, p) == SelectSeq(doc, LAMBDA n : IsChild(p, n.path))

\* obj[key] of JavaScript: undefined, a scalar or an object; its truthiness.
Truthy(doc, p) == Has(doc, p) /\ (NodeAt(doc, p).table \/ NodeAt(doc, p).lit \notin FalsyLits)

\* The parser's state while it reads a text line by line.
ParseStart == [doc |-> <<>>, declared |-> {}, closed |-> {}, cur |-> <<>>, err |-> FALSE]

\* The implicit super-tables a header creates: every proper prefix not yet there.
RECURSIVE WithSupers(_, _, _)
WithSupers(doc, p, n) ==
    IF n >= Len(p) THEN doc
    ELSE LET q == SubSeq(p, 1, n)
         IN WithSupers(IF Has(doc, q) THEN doc ELSE Append(doc, TableNode(q)), p, n + 1)

ParseHeader(st, p) ==
    LET supers == {SubSeq(p, 1, n) : n \in 1..(Len(p) - 1)}
        clash == \/ \E q \in supers : Has(st.doc, q) /\ ~NodeAt(st.doc, q).table
                 \/ \E q \in supers \cup {p} : q \in st.closed
                 \/ Has(st.doc, p) /\ (~NodeAt(st.doc, p).table \/ p \in st.declared)
        d1 == WithSupers(st.doc, p, 1)
    IN IF clash THEN [st EXCEPT !.err = TRUE]
       ELSE [st EXCEPT !.doc = IF Has(d1, p) THEN d1 ELSE Append(d1, TableNode(p)),
                       !.declared = @ \cup {p},
                       !.cur = p]

ParseKV(st, k, l) ==
    LET p == Append(st.cur, k)
    IN IF Has(st.doc, p) THEN [st EXCEPT !.err = TRUE]
       ELSE IF l = EmptyTableLit
            THEN [st EXCEPT !.doc = Append(@, TableNode(p)),
                            !.declared = @ \cup {p},
                            !.closed = @ \cup {p}]
            ELSE [st EXCEPT !.doc = Append(@, LeafNode(p, l))]

ParseLine(st, line) ==
    IF st.err THEN st
    ELSE IF line.kind = "header" THEN ParseHeader(st, line.path)
    ELSE ParseKV(st, line.key, line.lit)

RECURSIVE ParseFrom(_, _, _)
ParseFrom(st, text, i) ==
    IF i > Len(text) THEN st ELSE ParseFrom(ParseLine(st, text[i]), text, i + 1)

\* TOML.parse: a document, or a parse error.
TOMLparse(text) ==
    LET st == ParseFrom(ParseStart, text, 1)
    IN [ok |-> ~st.err, doc |-> IF st.err THEN <<>> ELSE st.doc]

\* The serializer writes a value inline when it is a scalar or an empty table.
IsInline(doc, n) == ~n.table \/ Children(doc, n.path) = <<>>

InlineLine(n) == KV(n.path[Len(n.path)], IF n.table THEN EmptyTableLit ELSE n.lit)

RECURSIVE Concat(_)
Concat(ss) == IF ss = <<>> THEN <<>> ELSE Head(ss) \o Concat(Tail(ss))

RECURSIVE MapSeq(_, _)
MapSeq(Op(_), s) == IF s = <<>> THEN <<>> ELSE <<Op(Head(s))>> \o MapSeq(Op, Tail(s))

\* A variant of the serializer that writes nothing for an empty table.
RECURSIVE StringifyDropsEmpty(_, _)
StringifyDropsEmpty(prefix, doc) ==
    LET kids == Children(doc, prefix)
        inl == SelectSeq(kids, LAMBDA n : ~n.table)
        cpx == SelectSeq(kids, LAMBDA n : n.table)
        Sub(n) == (IF SelectSeq(Children(doc, n.path), LAMBDA m : ~m.table) # <<>>
                   THEN <<Header(n.path)>> ELSE <<>>)
                  \o StringifyDropsEmpty(n.path, doc)
    IN MapSeq(InlineLine, inl) \o Concat(MapSeq(Sub, cpx))

\* stringifyObject: the inline keys of a table first, then its sub-tables, each
\* under a header when it has inline keys of its own.
RECURSIVE StringifyObject(_, _)
StringifyObject(prefix, doc) ==
    LET kids == Children(doc, prefix)
        inl == SelectSeq(kids, LAMBDA n : IsInline(doc, n))
        cpx == SelectSeq(kids, LAMBDA n : ~IsInline(doc, n))
        Sub(n) == (IF SelectSeq(Children(doc, n.path), LAMBDA m : IsInline(doc, m)) # <<>>
                   THEN <<Header(n.path)>> ELSE <<>>)
                  \o StringifyObject(n.path, doc)
    IN MapSeq(InlineLine, inl) \o Concat(MapSeq(Sub, cpx))

\* TOML.stringify
TOMLstringify(doc) == StringifyObject(<<>>, doc)

(***************************************************************************)
(* addClusterLocalRegistryConfig                                           *)
(***************************************************************************)

\* obj[key] = {...}: an existing key keeps its place and loses its old value,
\* a new key goes last.
Assign(doc, p, nodes) ==
    LET rest == SelectSeq(doc, LAMBDA n : ~(IsPrefix(p, n.path) /\ n.path # p))
        at == [i \in 1..Len(rest) |-> IF rest[i].path = p THEN TableNode(p) ELSE rest[i]]
    IN (IF Has(doc, p) THEN at ELSE Append(doc, TableNode(p))) \o nodes

RegistryKey == <<"registry">>
HostKey(h) == <<"registry", h>>

\* {http: true, insecure: true}
InsecureEntry(h) ==
    << LeafNode(Append(HostKey(h), "http"), "true"),
       LeafNode(Append(HostKey(h), "insecure"), "true") >>

\* The outcome of a call that returns a text or throws.
Returned(text) == [ok |-> TRUE, text |-> text, err |-> ""]
Thrown(e) == [ok |-> FALSE, text |-> <<>>, err |-> e]

\* if (!inlineToml['registry']) inlineToml['registry'] = {}
EnsureRegistry(doc) ==
    IF ~Truthy(doc, RegistryKey) THEN Assign(doc, RegistryKey, <<>>) ELSE doc

\* The host check and the assignment of the entry; assigning a property on a
\* scalar registry value throws in strict mode.
AddRegistryHost(doc, e) ==
    IF e.set /\ e.value # "" /\ ~Truthy(doc, HostKey(e.value))
    THEN IF NodeAt(doc, RegistryKey).table
         THEN Returned(TOMLstringify(Assign(doc, HostKey(e.value), InsecureEntry(e.value))))
         ELSE Thrown("TypeError")
    ELSE Returned(TOMLstringify(doc))

MergeParsed(parsed, e) ==
    IF ~parsed.ok THEN Thrown("TomlError") ELSE AddRegistryHost(EnsureRegistry(parsed.doc), e)

addClusterLocalRegistryConfig(buildkitConfig, e) == MergeParsed(TOMLparse(buildkitConfig), e)

(***************************************************************************)
(* The registry merge applied repeatedly to one text                       *)
(***************************************************************************)

MaxMerges == 2

Hosts == {"myhost", "other"}

EnvValues == {[set |-> FALSE, value |-> ""], [set |-> TRUE, value |-> ""]}
             \cup {[set |-> TRUE, value |-> h] : h \in Hosts}

RootBlocks ==
    { <<>>,
      <<KV("debug", "true")>>,
      <<KV("registry", "false")>>,
      <<KV("registry", "\"x\"")>>,
      <<KV("registry", EmptyTableLit)>>,
      <<KV("debug", "true"), KV("registry", "0")>> }

RegBlocks ==
    { <<>>, <<Header(RegistryKey)>> }
    \cup { <<Header(RegistryKey), KV(h, l)>> :
             h \in Hosts, l \in {"false", "\"\"", "\"x\"", EmptyTableLit} }

HostBlocks(h) ==
    { <<>>,
      <<Header(HostKey(h))>>,
      <<Header(HostKey(h)), KV("http", "false"), KV("insecure", "false")>>,
      <<Header(HostKey(h)), KV("insecure", "true")>> }

OtherBlocks ==
    { <<>>,
      <<Header(HostKey("other")), KV("http", "true")>>,
      <<Header(<<"worker", "oci">>), KV("enabled", "true")>> }

\* The texts the merge is tried on: well-formed ones in several layouts, and
\* some the parser rejects (a key given twice, a table over a scalar).
MergeTexts ==
    { r \o g \o h \o o : r \in RootBlocks, g \in RegBlocks,
                         h \in HostBlocks("myhost"), o \in OtherBlocks }
    \cup { r \o o \o h \o g : r \in RootBlocks, g \in RegBlocks,
                              h \in HostBlocks("myhost"), o \in OtherBlocks }

NoCall == [op |-> "none"]
NoResult == [status |-> "none", args |-> <<>>, value |-> <<>>, err |-> ""]
NoLocks == [enabled |-> FALSE, held |-> {}]
NoResolved == [kind |-> "none", path |-> <<>>, text |-> <<>>]

InitMerge ==
    /\ env \in EnvValues
    /\ runs \in {<<Returned(t)>> : t \in MergeTexts}
    /\ fs = <<>>
    /\ lookup = [status |-> "ok", ver |-> <<0, 0, 0>>]
    /\ rejects = FALSE
    /\ call = NoCall
    /\ result = NoResult
    /\ resolved = NoResolved
    /\ fsBefore = <<>>
    /\ inv = <<>>
    /\ locks = NoLocks

\* One more application of the merge to the text the last one returned.
ApplyMerge ==
    /\ Len(runs) <= MaxMerges
    /\ runs[Len(runs)].ok
    /\ runs' = Append(runs, addClusterLocalRegistryConfig(runs[Len(runs)].text, env))
    /\ UNCHANGED <<env, fs, lookup, rejects, call, result, resolved, fsBefore, inv, locks>>

NextMerge == ApplyMerge

SpecMerge == InitMerge /\ [][NextMerge]_vars

(***************************************************************************)
(* Properties of the registry merge                                        *)
(***************************************************************************)

NodeSet(doc) == {doc[i] : i \in 1..Len(doc)}

\* The document a text of `runs` stands for.
DocOf(i) == TOMLparse(runs[i].text).doc

\* A first merge has run on a well-formed document that already has an entry
\* for the configured, non-empty host.
MergedOverEntry ==
    /\ Len(runs) >= 2
    /\ runs[2].ok
    /\ env.set /\ env.value # ""
    /\ Has(DocOf(1), HostKey(env.value))

\* C3: the merge never overwrites a pre-existing entry for the configured host,
\* whatever its value, and leaves every other key of the document unchanged.
C3_NeverOverwritesEntry ==
    MergedOverEntry => NodeSet(DocOf(2)) = NodeSet(DocOf(1))

\* C4: the merge is idempotent: applied to the output of a first merge, with the
\* same environment host (set, empty or unset), it returns that output again.
C4_MergeIdempotent ==
    \A i \in 3..Len(runs) : runs[i] = runs[i - 1]

\* A second merge has run after a first one that changed the text by adding the
\* entry for the host.
C4_Witness ==
    /\ Len(runs) = 3
    /\ runs[2].ok
    /\ env.set /\ env.value = "myhost"
    /\ ~Has(DocOf(1), HostKey("myhost"))
    /\ Has(DocOf(2), HostKey("myhost"))
    /\ runs[2].text # runs[1].text

(***************************************************************************)
(* The version gate: toolkit.buildx.versionSatisfies                       *)
(***************************************************************************)

\* -1, 0 or 1 as version a is below, equal to or above version b.
CompareVersions(a, b) ==
    IF a[1] # b[1] THEN (IF a[1] < b[1] THEN -1 ELSE 1)
    ELSE IF a[2] # b[2] THEN (IF a[2] < b[2] THEN -1 ELSE 1)
    ELSE IF a[3] # b[3] THEN (IF a[3] < b[3] THEN -1 ELSE 1)
    ELSE 0

\* The same with >= read as >.
SatisfiesStrict(ver, range) ==
    IF range.op = ">=" THEN CompareVersions(ver, range.ver) > 0
    ELSE CompareVersions(ver, range.ver) < 0

\* semver.satisfies for the two range shapes the code uses.
Satisfies(ver, range) ==
    IF range.op = ">=" THEN CompareVersions(ver, range.ver) >= 0
    ELSE CompareVersions(ver, range.ver) < 0

Range_GE_0_3_0 == [op |-> ">=", ver |-> <<0, 3, 0>>]
Range_LT_0_11_0 == [op |-> "<", ver |-> <<0, 11, 0>>]
Range_GE_0_4_0 == [op |-> ">=", ver |-> <<0, 4, 0>>]

\* await toolkit.buildx.versionSatisfies(range): the promise resolves to a
\* boolean or rejects. The toolkit is an external collaborator: on a lookup
\* that failed or gave unparsable text it either answers false or rejects.
versionSatisfies(tk, range) ==
    IF tk.lookup.status = "ok"
    THEN [thrown |-> FALSE, val |-> Satisfies(tk.lookup.ver, range)]
    ELSE [thrown |-> tk.rejects, val |-> FALSE]

(***************************************************************************)
(* Paths and the file-based merge                                          *)
(***************************************************************************)

\* path.dirname and path.join on component sequences; <<>> is ".".
dirname(p) == SubSeq(p, 1, Len(p) - 1)
join(dir, name) == Append(dir, name)

RECURSIVE JoinStr(_, _)
JoinStr(parts, sep) ==
    IF parts = <<>> THEN ""
    ELSE IF Len(parts) = 1 THEN parts[1]
    ELSE parts[1] \o sep \o JoinStr(Tail(parts), sep)

OutputName == "buildpulse_buildkit.toml"

\* A slip that puts the rewritten file into the working directory.
newBuildkitConfigPathInCwd(buildkitConfigPath) == join(<<>>, OutputName)

newBuildkitConfigPath(buildkitConfigPath) == join(dirname(buildkitConfigPath), OutputName)

NoFile == [exists |-> FALSE, text |-> <<>>]
File(text) == [exists |-> TRUE, text |-> text]

\* fs.promises.readFile: the text, or an error for a missing file.
readFile(files, p) ==
    IF p \in DOMAIN files /\ files[p].exists THEN Returned(files[p].text) ELSE Thrown("ENOENT")

\* fs.promises.writeFile
writeFile(files, p, text) ==
    [q \in DOMAIN files \cup {p} |-> IF q = p THEN File(text) ELSE files[q]]

\* The write of the merged text, or the merge's error.
WriteMerged(newPath, merged, files) ==
    IF merged.ok
    THEN [ok |-> TRUE, path |-> newPath, files |-> writeFile(files, newPath, merged.text),
          err |-> ""]
    ELSE [ok |-> FALSE, path |-> newPath, files |-> files, err |-> merged.err]

\* The merge of what was read, or the read's error.
MergeRead(newPath, content, files, e) ==
    IF content.ok
    THEN WriteMerged(newPath, addClusterLocalRegistryConfig(content.text, e), files)
    ELSE [ok |-> FALSE, path |-> newPath, files |-> files, err |-> content.err]

\* returns [ok, path, files, err]
addClusterLocalRegistryConfigFile(buildkitConfigPath, files, e) ==
    MergeRead(newBuildkitConfigPath(buildkitConfigPath), readFile(files, buildkitConfigPath),
              files, e)

\* The opaque references of toolkit.buildkit.config.
resolveFromFile(p) == "ref:" \o JoinStr(p, "/")
resolveFromString(text) == "ref:inline"

(***************************************************************************)
(* getCreateArgs                                                           *)
(***************************************************************************)

defaultBuildkitdFlags ==
    "--allow-insecure-entitlement security.insecure --allow-insecure-entitlement network.host"

\* The driver list without "docker".
driverSupportsBuildkitdFlagsNoDocker(driver) ==
    driver = "" \/ driver = "docker-container" \/ driver = "kubernetes"

driverSupportsBuildkitdFlags(driver) ==
    driver = "" \/ driver = "docker-container" \/ driver = "docker" \/ driver = "kubernetes"

RECURSIVE DriverOptArgs(_)
DriverOptArgs(opts) ==
    IF opts = <<>> THEN <<>>
    ELSE <<"--driver-opt", Head(opts)>> \o DriverOptArgs(Tail(opts))

BuildkitdFlagArgs(flags, driver) ==
    IF flags # "" THEN <<"--buildkitd-flags", flags>>
    ELSE IF driverSupportsBuildkitdFlags(driver) THEN <<"--buildkitd-flags", defaultBuildkitdFlags>>
    ELSE <<>>

\* The order with the endpoint pushed before the config.
CreateOrderEndpointEarly(seed, gated, platform, use, config, endpoint) ==
    seed \o gated \o platform \o use \o endpoint \o config

\* The order in which getCreateArgs pushes its groups of tokens.
CreateOrder(seed, gated, platform, use, config, endpoint) ==
    seed \o gated \o platform \o use \o config \o endpoint

Ok(args) == [status |-> "ok", args |-> args, value |-> <<>>, err |-> ""]
Failed(e) == [status |-> "error", args |-> <<>>, value |-> <<>>, err |-> e]

\* --config from the rewritten file: [ok, err, token, files, resolved]
FileConfig(file) ==
    [ok |-> file.ok, err |-> file.err, token |-> resolveFromFile(file.path),
     files |-> file.files,
     resolved |-> IF file.ok
                  THEN [kind |-> "file", path |-> file.path, text |-> file.files[file.path].text]
                  ELSE NoResolved]

\* --config from the merged inline text
InlineConfig(merged, files) ==
    [ok |-> merged.ok, err |-> merged.err, token |-> resolveFromString(merged.text),
     files |-> files,
     resolved |-> IF merged.ok
                  THEN [kind |-> "string", path |-> <<>>, text |-> merged.text]
                  ELSE NoResolved]

\* if (inputs.buildkitdConfig) {...} else {...}
ResolveConfig(inputs, files, e) ==
    IF inputs.buildkitdConfig # <<>>
    THEN FileConfig(addClusterLocalRegistryConfigFile(inputs.buildkitdConfig, files, e))
    ELSE InlineConfig(addClusterLocalRegistryConfig(inputs.buildkitdConfigInline, e), files)

CreateArgsWith(inputs, gateVal, configToken) ==
    CreateOrder(
        <<"create", "--name", inputs.name, "--driver", inputs.driver>>,
        IF gateVal
        THEN DriverOptArgs(inputs.driverOpts)
             \o BuildkitdFlagArgs(inputs.buildkitdFlags, inputs.driver)
        ELSE <<>>,
        IF Len(inputs.platforms) > 0
        THEN <<"--platform", JoinStr(inputs.platforms, ",")>> ELSE <<>>,
        IF inputs.use THEN <<"--use">> ELSE <<>>,
        <<"--config", configToken>>,
        IF inputs.endpoint # "" THEN <<inputs.endpoint>> ELSE <<>>)

CreateWithConfig(inputs, gateVal, config, files) ==
    IF config.ok
    THEN [result |-> Ok(CreateArgsWith(inputs, gateVal, config.token)),
          files |-> config.files, resolved |-> config.resolved]
    ELSE [result |-> Failed(config.err), files |-> files, resolved |-> NoResolved]

CreateWithGate(inputs, gate, files, e) ==
    IF gate.thrown
    THEN [result |-> Failed("VersionError"), files |-> files, resolved |-> NoResolved]
    ELSE CreateWithConfig(inputs, gate.val, ResolveConfig(inputs, files, e), files)

\* returns [result, files, resolved]
getCreateArgs(inputs, tk, files, e) ==
    CreateWithGate(inputs, versionSatisfies(tk, Range_GE_0_3_0), files, e)

(***************************************************************************)
(* getAppendArgs, getInspectArgs, getVersion                               *)
(***************************************************************************)

\* The two --node branches as two independent ifs.
NodeArgsBothBranches(inputs, node, tk, uuid) ==
    LET lt == versionSatisfies(tk, Range_LT_0_11_0)
        named == IF node.name # "" THEN <<"--node", node.name>> ELSE <<>>
        asked == inputs.driver = "kubernetes"
    IN [thrown |-> asked /\ lt.thrown,
        args |-> named \o (IF asked /\ lt.val THEN <<"--node", "node-" \o uuid>> ELSE <<>>)]

\* if (node.name) ... else if (driver == 'kubernetes' && await versionSatisfies('<0.11.0')) ...
\* The version is asked for only when node.name is unset and the driver is kubernetes.
NodeArgs(inputs, node, tk, uuid) ==
    LET lt == versionSatisfies(tk, Range_LT_0_11_0)
        asked == node.name = "" /\ inputs.driver = "kubernetes"
    IN [thrown |-> asked /\ lt.thrown,
        args |-> IF node.name # "" THEN <<"--node", node.name>>
                 ELSE IF asked /\ lt.val THEN <<"--node", "node-" \o uuid>>
                 ELSE <<>>]

\* node['driver-opts'] is optional: [present, list]; a present empty list is truthy.
getAppendArgs(inputs, node, tk, uuid) ==
    LET seed == <<"create", "--name", inputs.name, "--append">>
        nodeArgs == NodeArgs(inputs, node, tk, uuid)
        gate == versionSatisfies(tk, Range_GE_0_3_0)
        asked == node.driverOpts.present
        gated == IF asked /\ gate.val
                 THEN DriverOptArgs(node.driverOpts.list)
                      \o BuildkitdFlagArgs(node.buildkitdFlags, inputs.driver)
                 ELSE <<>>
        platform == IF node.platforms # "" THEN <<"--platform", node.platforms>> ELSE <<>>
        endpoint == IF node.endpoint # "" THEN <<node.endpoint>> ELSE <<>>
    IN IF nodeArgs.thrown \/ (asked /\ gate.thrown) THEN Failed("VersionError")
       ELSE Ok(seed \o nodeArgs.args \o gated \o platform \o endpoint)

getInspectArgs(inputs, tk) ==
    LET gate == versionSatisfies(tk, Range_GE_0_4_0)
    IN IF gate.thrown THEN Failed("VersionError")
       ELSE Ok(<<"inspect", "--bootstrap">>
               \o (IF gate.val THEN <<"--builder", inputs.name>> ELSE <<>>))

\* String.prototype.startsWith on character sequences.
startsWith(str, prefix) == Len(str) >= Len(prefix) /\ SubSeq(str, 1, Len(prefix)) = prefix

S_cloud == <<"c", "l", "o", "u", "d", ":">>
S_lab == <<"l", "a", "b", ":">>
S_latest == <<"l", "a", "t", "e", "s", "t">>

\* getVersion without the "lab:" pass-through.
getVersionNoLab(inputs) ==
    LET version == inputs.version
    IN IF inputs.driver = "cloud"
       THEN IF version = <<>> \/ version = S_latest THEN S_cloud \o S_latest
            ELSE IF startsWith(version, S_cloud) THEN version
            ELSE S_cloud \o version
       ELSE version

getVersion(inputs) ==
    LET version == inputs.version
    IN IF inputs.driver = "cloud"
       THEN IF version = <<>> \/ version = S_latest THEN S_cloud \o S_latest
            ELSE IF startsWith(version, S_cloud) \/ startsWith(version, S_lab) THEN version
            ELSE S_cloud \o version
       ELSE version

(***************************************************************************)
(* One call of a builder in an environment                                 *)
(***************************************************************************)

MaxDriverOpts == 2

Drivers == {"", "docker", "docker-container", "kubernetes", "remote", "cloud"}
OptValues == {"network=host", "image=moby/buildkit:master"}
FlagValues == {"", "--debug"}
Endpoints == {"", "tcp://10.0.0.1:1234"}
PlatformLists ==
    { <<>>, <<"linux/amd64">>, <<"linux/amd64", "linux/arm64">> }
NodeNames == {"", "node-1"}
NodePlatforms == {"", "linux/amd64,linux/arm64"}
Uuids == {"4f3c", "9a1e"}

SeqsUpTo(S, n) == UNION {[1..k -> S] : k \in 0..n}

DriverOptLists == SeqsUpTo(OptValues, MaxDriverOpts)

\* inputs.version as characters.
VersionStrings ==
    { <<>>, S_latest, S_cloud \o <<"f", "o", "o">>, S_lab \o <<"b", "a", "r">>,
      <<"v", "1", ".", "2", ".", "3">>, S_cloud, S_lab,
      <<"c", "l", "o", "u", "d">>, <<"l", "a", "b">>, S_latest \o <<"2">>,
      <<"x">> \o S_lab }

\* What the tool reports.
ToolVersions ==
    { <<0, 2, 0>>, <<0, 3, 0>>, <<0, 3, 9>>, <<0, 4, 0>>, <<0, 10, 0>>, <<0, 11, 0>>,
      <<0, 12, 0>>, <<1, 0, 0>> }

Lookups ==
    {[status |-> "ok", ver |-> v] : v \in ToolVersions}
    \cup {[status |-> st, ver |-> <<0, 0, 0>>] : st \in {"unparsable", "failed"}}

\* Files of the runner.
P_config == <<"cfg", "buildkitd.toml">>
P_output == <<"cfg", OutputName>>
P_bare == <<"buildkitd.toml">>
P_missing == <<"cfg", "missing.toml">>

T_empty == <<>>
T_mirror == <<KV("debug", "true"), Header(HostKey("myhost")), KV("http", "false")>>
T_other == <<Header(HostKey("other")), KV("insecure", "true")>>
T_broken == <<KV("debug", "true"), KV("debug", "true")>>

ConfigPaths == {<<>>, P_config, P_output, P_bare, P_missing}
InlineTexts == {T_empty, T_other, T_broken}

\* File and inline configs; both set (the file wins) is tried once.
ConfigChoices ==
    {<<c, T_empty>> : c \in ConfigPaths} \cup {<<<<>>, t>> : t \in InlineTexts}
    \cup {<<P_config, T_other>>}

InitialFiles ==
    [p \in {P_config, P_output, P_bare, P_missing, <<OutputName>>} |->
        CASE p = P_config -> File(T_mirror)
          [] p = P_output -> File(T_other)
          [] p = P_bare -> File(T_empty)
          [] OTHER -> NoFile]

InputsOf(version, driver, driverOpts, flags, config, inline, platforms, use, endpoint) ==
    [version |-> version, name |-> "builder-x", driver |-> driver, driverOpts |-> driverOpts,
     buildkitdFlags |-> flags, buildkitdConfig |-> config, buildkitdConfigInline |-> inline,
     platforms |-> platforms, use |-> use, endpoint |-> endpoint]

NoNode == [name |-> "", driverOpts |-> [present |-> FALSE, list |-> <<>>],
           buildkitdFlags |-> "", platforms |-> "", endpoint |-> ""]

Init ==
    /\ env \in {[set |-> FALSE, value |-> ""], [set |-> TRUE, value |-> "myhost"]}
    /\ fs = InitialFiles
    /\ lookup \in Lookups
    /\ rejects \in BOOLEAN
    /\ (lookup.status = "ok" => ~rejects)
    /\ call = NoCall
    /\ result = NoResult
    /\ resolved = NoResolved
    /\ fsBefore = InitialFiles
    /\ runs = <<>>
    /\ inv = <<>>
    /\ locks = NoLocks

Toolkit == [lookup |-> lookup, rejects |-> rejects]

CreateCalled(inputs, out) ==
    /\ call' = [op |-> "create", inputs |-> inputs, node |-> NoNode, uuid |-> ""]
    /\ result' = out.result
    /\ fs' = out.files
    /\ resolved' = out.resolved
    /\ fsBefore' = fs

GetCreateArgs ==
    /\ call.op = "none"
    /\ \E driver \in Drivers, driverOpts \in DriverOptLists, flags \in FlagValues,
          config \in ConfigPaths, inline \in InlineTexts, platforms \in PlatformLists,
          use \in BOOLEAN, endpoint \in Endpoints :
          LET inputs == InputsOf(<<>>, driver, driverOpts, flags, config, inline,
                                 platforms, use, endpoint)
          IN /\ <<config, inline>> \in ConfigChoices
             /\ CreateCalled(inputs, getCreateArgs(inputs, Toolkit, fs, env))
    /\ UNCHANGED <<env, lookup, rejects, runs, inv, locks>>

GetAppendArgs ==
    /\ call.op = "none"
    /\ \E driver \in Drivers, name \in NodeNames, present \in BOOLEAN,
          driverOpts \in DriverOptLists, flags \in FlagValues,
          platforms \in NodePlatforms, endpoint \in Endpoints, uuid \in Uuids :
          LET inputs == InputsOf(<<>>, driver, <<>>, "", <<>>, T_empty, <<>>, FALSE, "")
              node == [name |-> name,
                       driverOpts |-> [present |-> present, list |-> driverOpts],
                       buildkitdFlags |-> flags, platforms |-> platforms,
                       endpoint |-> endpoint]
          IN /\ (~present => driverOpts = <<>>)
             /\ call' = [op |-> "append", inputs |-> inputs, node |-> node, uuid |-> uuid]
             /\ result' = getAppendArgs(inputs, node, Toolkit, uuid)
    /\ fsBefore' = fs
    /\ UNCHANGED <<env, fs, lookup, rejects, resolved, runs, inv, locks>>

GetInspectArgs ==
    /\ call.op = "none"
    /\ \E driver \in Drivers :
          LET inputs == InputsOf(<<>>, driver, <<>>, "", <<>>, T_empty, <<>>, FALSE, "")
          IN /\ call' = [op |-> "inspect", inputs |-> inputs, node |-> NoNode, uuid |-> ""]
             /\ result' = getInspectArgs(inputs, Toolkit)
    /\ fsBefore' = fs
    /\ UNCHANGED <<env, fs, lookup, rejects, resolved, runs, inv, locks>>

GetVersion ==
    /\ call.op = "none"
    /\ \E driver \in Drivers, version \in VersionStrings :
          LET inputs == InputsOf(version, driver, <<>>, "", <<>>, T_empty, <<>>, FALSE, "")
          IN /\ call' = [op |-> "version", inputs |-> inputs, node |-> NoNode, uuid |-> ""]
             /\ result' = [status |-> "ok", args |-> <<>>, value |-> getVersion(inputs),
                           err |-> ""]
    /\ fsBefore' = fs
    /\ UNCHANGED <<env, fs, lookup, rejects, resolved, runs, inv, locks>>

Next == GetCreateArgs \/ GetAppendArgs \/ GetInspectArgs \/ GetVersion

Spec == Init /\ [][Next]_vars

(***************************************************************************)
(* Properties of the argument builders                                     *)
(***************************************************************************)

Count(args, tok) == Cardinality({i \in 1..Len(args) : args[i] = tok})

Returns(op) == call.op = op /\ result.status = "ok"

\* The reported version is known and is at least 0.3.0 / below 0.11.0.
AtLeast_0_3_0 == lookup.status = "ok" /\ (lookup.ver[1] > 0 \/ lookup.ver[2] >= 3)
Below_0_11_0 == lookup.status = "ok" /\ lookup.ver[1] = 0 /\ lookup.ver[2] < 11

\* The end-to-end scenario: driver docker, two platforms, use, nothing else set,
\* tool version 0.12.0.
C1_Scenario ==
    /\ Returns("create")
    /\ lookup = [status |-> "ok", ver |-> <<0, 12, 0>>]
    /\ call.inputs.name = "builder-x"
    /\ call.inputs.driver = "docker"
    /\ call.inputs.platforms = <<"linux/amd64", "linux/arm64">>
    /\ call.inputs.use
    /\ call.inputs.driverOpts = <<>>
    /\ call.inputs.buildkitdFlags = ""
    /\ call.inputs.buildkitdConfig = <<>>
    /\ call.inputs.buildkitdConfigInline = <<>>
    /\ call.inputs.endpoint = ""

\* C1 as stated: in the end-to-end scenario the create arguments are exactly
\* create --name builder-x --driver docker --platform linux/amd64,linux/arm64
\* --use --config <ref>, with no other token.
C1_ScenarioAsStated ==
    C1_Scenario =>
        result.args = << "create", "--name", "builder-x", "--driver", "docker",
                         "--platform", "linux/amd64,linux/arm64", "--use",
                         "--config", "ref:inline" >>

\* C1 amended: in the end-to-end scenario the create arguments are the stated
\* ones with the default --buildkitd-flags pair between the driver and --platform,
\* and the config reference is resolved from the merged inline text.
C1_ScenarioWithDefaultFlags ==
    C1_Scenario =>
        /\ result.args =
             << "create", "--name", "builder-x", "--driver", "docker",
                "--buildkitd-flags",
                "--allow-insecure-entitlement security.insecure --allow-insecure-entitlement network.host",
                "--platform", "linux/amd64,linux/arm64", "--use",
                "--config", "ref:inline" >>
        /\ resolved.kind = "string"

C1_Witness ==
    /\ C1_Scenario
    /\ Count(result.args, "--buildkitd-flags") = 1
    /\ Len(result.args) = 12

\* C2 as stated: when the version lookup fails or reports unparsable text, no
\* builder ends in a version error, and the list it returns has none of the
\* version-gated tokens.
C2_VersionFailureNeverFatal ==
    (call.op \in {"create", "append", "inspect"} /\ lookup.status # "ok") =>
        /\ result.err # "VersionError"
        /\ result.status = "ok" =>
             /\ Count(result.args, "--driver-opt") = 0
             /\ Count(result.args, "--buildkitd-flags") = 0
             /\ Count(result.args, "--builder") = 0
             /\ (call.node.name = "" => Count(result.args, "--node") = 0)

\* C5: a create list built with a version below 0.3.0 (or unknown) has no
\* --driver-opt and no --buildkitd-flags token; with a version of at least 0.3.0
\* it has one --driver-opt pair per entry of driverOpts, in list order, right
\* after the seed.
C5_DriverOptsGated ==
    Returns("create") =>
        LET a == result.args
            opts == call.inputs.driverOpts
        IN /\ ~AtLeast_0_3_0 =>
                Count(a, "--driver-opt") = 0 /\ Count(a, "--buildkitd-flags") = 0
           /\ AtLeast_0_3_0 =>
                /\ Count(a, "--driver-opt") = Len(opts)
                /\ Len(a) >= 5 + 2 * Len(opts)
                /\ \A i \in 1..Len(opts) :
                      a[4 + 2 * i] = "--driver-opt" /\ a[5 + 2 * i] = opts[i]

C5_Witness ==
    /\ Returns("create")
    /\ lookup = [status |-> "ok", ver |-> <<0, 2, 0>>]
    /\ Len(call.inputs.driverOpts) = MaxDriverOpts
    /\ call.inputs.buildkitdFlags # ""
    /\ call.inputs.driver = "docker-container"

\* C6: every create list has exactly one --config token; when inputs.endpoint is
\* set, the endpoint is the last token and the two tokens before it are --config
\* and the resolved config reference.
C6_EndpointLast ==
    Returns("create") =>
        LET a == result.args
            n == Len(result.args)
            ref == IF call.inputs.buildkitdConfig # <<>>
                   THEN "ref:" \o JoinStr(resolved.path, "/") ELSE "ref:inline"
        IN /\ Count(a, "--config") = 1
           /\ resolved.kind = (IF call.inputs.buildkitdConfig # <<>> THEN "file" ELSE "string")
           /\ call.inputs.endpoint # "" =>
                a[n] = call.inputs.endpoint /\ a[n - 1] = ref /\ a[n - 2] = "--config"

C6_Witness ==
    /\ Returns("create")
    /\ call.inputs.endpoint # ""
    /\ call.inputs.buildkitdConfig = P_config
    /\ call.inputs.platforms # <<>>
    /\ call.inputs.use
    /\ AtLeast_0_3_0

HasChars(str, chars) == Len(str) >= Len(chars) /\ \A i \in 1..Len(chars) : str[i] = chars[i]

\* C7: getVersion is the reference mapping: for driver cloud, "" and "latest"
\* give "cloud:latest", a version that starts with "cloud:" or "lab:" is
\* returned unchanged, any other version v gives "cloud:" followed by v; for
\* every other driver the version is returned unchanged.
C7_GetVersionMapping ==
    call.op = "version" =>
        LET v == call.inputs.version
            r == result.value
            cloud == <<"c", "l", "o", "u", "d", ":">>
            latest == <<"l", "a", "t", "e", "s", "t">>
            kept == HasChars(v, cloud) \/ HasChars(v, <<"l", "a", "b", ":">>)
        IN /\ call.inputs.driver # "cloud" => r = v
           /\ call.inputs.driver = "cloud" =>
                /\ (v = <<>> \/ v = latest) => r = cloud \o latest
                /\ kept => r = v
                /\ (v # <<>> /\ v # latest /\ ~kept) => r = cloud \o v

C7_Witness ==
    /\ call.op = "version"
    /\ call.inputs.driver = "cloud"
    /\ call.inputs.version = <<"l", "a", "b", ":", "b", "a", "r">>
    /\ result.value = call.inputs.version

\* C8: an append list has at most one --node token and never --config: --node
\* <node.name> when node.name is set, --node node-<id> when it is unset, the
\* driver is kubernetes and the version is below 0.11.0, and no --node otherwise.
C8_NodeNaming ==
    Returns("append") =>
        LET a == result.args
            name == call.node.name
            generated == name = "" /\ call.inputs.driver = "kubernetes" /\ Below_0_11_0
        IN /\ Count(a, "--node") <= 1
           /\ Count(a, "--config") = 0
           /\ name # "" => a[5] = "--node" /\ a[6] = name
           /\ generated => a[5] = "--node" /\ a[6] = "node-" \o call.uuid
           /\ (name = "" /\ ~generated) => Count(a, "--node") = 0

C8_Witness ==
    /\ Returns("append")
    /\ call.node.name = ""
    /\ call.inputs.driver = "kubernetes"
    /\ lookup = [status |-> "ok", ver |-> <<0, 10, 0>>]
    /\ Count(result.args, "--node") = 1

\* C9 as stated: for every path given as inputs.buildkitdConfig the file
\* written is another file than the source, and the source holds after the
\* call what it held before.
C9_SourceNeverClobbered ==
    (Returns("create") /\ call.inputs.buildkitdConfig # <<>>) =>
        /\ resolved.path # call.inputs.buildkitdConfig
        /\ fs[call.inputs.buildkitdConfig] = fsBefore[call.inputs.buildkitdConfig]

(***************************************************************************)
(* Concurrent getCreateArgs invocations with file-based configs            *)
(***************************************************************************)

NumInvocations == 2

Invocations == 1..NumInvocations

R_a == <<"cfg", "a.toml">>
R_b == <<"cfg", "b.toml">>
R_alt == <<"alt", "a.toml">>
R_missing == <<"alt", "missing.toml">>

RaceSources == {R_a, R_b, R_alt, R_missing}

RaceFiles ==
    [p \in RaceSources \cup {newBuildkitConfigPath(q) : q \in RaceSources} \cup {<<OutputName>>} |->
        CASE p = R_a -> File(T_mirror)
          [] p = R_b -> File(T_other)
          [] p = R_alt -> File(T_empty)
          [] OTHER -> NoFile]

Invocation(src) ==
    [pc |-> "idle", src |-> src, newPath |-> <<>>, content |-> <<>>, seen |-> <<>>]

InitRace ==
    /\ env = [set |-> TRUE, value |-> "myhost"]
    /\ fs = RaceFiles
    /\ inv \in [Invocations -> {Invocation(src) : src \in RaceSources}]
    /\ locks \in {[enabled |-> b, held |-> {}] : b \in BOOLEAN}
    /\ lookup = [status |-> "ok", ver |-> <<0, 12, 0>>]
    /\ rejects = FALSE
    /\ call = NoCall
    /\ result = NoResult
    /\ resolved = NoResolved
    /\ fsBefore = RaceFiles
    /\ runs = <<>>

\* The caller starts an invocation; a caller that serializes per directory
\* waits until no other invocation is at work in the source's directory.
CallerStarts(i) ==
    /\ inv[i].pc = "idle"
    /\ locks.enabled => dirname(inv[i].src) \notin locks.held
    /\ locks' = [locks EXCEPT !.held = IF locks.enabled THEN @ \cup {dirname(inv[i].src)} ELSE @]
    /\ inv' = [inv EXCEPT ![i].pc = "called"]
    /\ UNCHANGED <<env, fs, lookup, rejects, call, result, resolved, fsBefore, runs>>

\* addClusterLocalRegistryConfigFile up to its first await: the two paths.
ComputePaths(i) ==
    /\ inv[i].pc = "called"
    /\ inv' = [inv EXCEPT ![i].pc = "read", ![i].newPath = newBuildkitConfigPath(inv[i].src)]
    /\ UNCHANGED <<env, fs, lookup, rejects, call, result, resolved, fsBefore, runs, locks>>

\* await fs.promises.readFile(buildkitConfigPath)
ReadFile(i) ==
    /\ inv[i].pc = "read"
    /\ LET content == readFile(fs, inv[i].src)
       IN inv' = [inv EXCEPT ![i].pc = IF content.ok THEN "write" ELSE "failed",
                             ![i].content = content.text]
    /\ UNCHANGED <<env, fs, lookup, rejects, call, result, resolved, fsBefore, runs, locks>>

\* The merge of what was read and await fs.promises.writeFile(newBuildkitConfigPath, ...)
WriteFile(i) ==
    /\ inv[i].pc = "write"
    /\ LET merged == addClusterLocalRegistryConfig(inv[i].content, env)
       IN /\ inv' = [inv EXCEPT ![i].pc = IF merged.ok THEN "resolve" ELSE "failed"]
          /\ fs' = IF merged.ok THEN writeFile(fs, inv[i].newPath, merged.text) ELSE fs
    /\ UNCHANGED <<env, lookup, rejects, call, result, resolved, fsBefore, runs, locks>>

\* toolkit.buildkit.config.resolveFromFile(newBuildkitConfigPath): the toolkit
\* takes what the file holds now.
ResolveFromFile(i) ==
    /\ inv[i].pc = "resolve"
    /\ inv' = [inv EXCEPT ![i].pc = "resolved", ![i].seen = fs[inv[i].newPath].text]
    /\ UNCHANGED <<env, fs, lookup, rejects, call, result, resolved, fsBefore, runs, locks>>

\* The invocation has returned or thrown: the caller lets the next one in.
CallerEnds(i) ==
    /\ inv[i].pc \in {"resolved", "failed"}
    /\ inv' = [inv EXCEPT ![i].pc = IF inv[i].pc = "resolved" THEN "done" ELSE "thrown"]
    /\ locks' = [locks EXCEPT !.held = @ \ {dirname(inv[i].src)}]
    /\ UNCHANGED <<env, fs, lookup, rejects, call, result, resolved, fsBefore, runs>>

NextRace ==
    \E i \in Invocations :
        \/ CallerStarts(i)
        \/ ComputePaths(i)
        \/ ReadFile(i)
        \/ WriteFile(i)
        \/ ResolveFromFile(i)
        \/ CallerEnds(i)

SpecRace == InitRace /\ [][NextRace]_vars

\* The merge of what invocation i read from its own source.
OwnMerge(i) == addClusterLocalRegistryConfig(inv[i].content, env).text

HasResolved(i) == inv[i].pc \in {"resolved", "done"}

SameDirOtherSource(i, j) ==
    /\ i # j
    /\ inv[i].src # inv[j].src
    /\ dirname(inv[i].src) = dirname(inv[j].src)

\* C10: when the callers serialize per directory, every invocation resolves a
\* file that holds the merge of its own source; an invocation resolves a file
\* that holds something else only when the callers do not serialize and another
\* invocation with another source in the same directory has written its merge
\* to the shared output file.
C10_SerializedResolvesOwnMerge ==
    \A i \in Invocations :
        HasResolved(i) =>
            /\ locks.enabled => inv[i].seen = OwnMerge(i)
            /\ inv[i].seen # OwnMerge(i) =>
                 /\ ~locks.enabled
                 /\ \E j \in Invocations :
                       /\ SameDirOtherSource(i, j)
                       /\ inv[j].pc \in {"resolve", "resolved", "done"}
                       /\ inv[i].seen = OwnMerge(j)

\* The race: without serialization an invocation has resolved the output file
\* while it held the merge of the other invocation's source.
C10_Witness ==
    \E i, j \in Invocations :
        /\ SameDirOtherSource(i, j)
        /\ ~locks.enabled
        /\ HasResolved(i)
        /\ inv[i].seen = OwnMerge(j)
        /\ inv[i].seen # OwnMerge(i)

====
